---- MODULE Spec2Model ----
(***************************************************************************)
(* Model of two scripts of python-for-devops:                              *)
(*                                                                         *)
(*   Day-01/devops-task/Server_Health_Check.py                             *)
(*       check_server(host) runs  os.system("ping -c 1 <host> > /dev/null  *)
(*       2>&1")  and prints "<host> is UP" when the returned status is 0,  *)
(*       "<host> is DOWN" otherwise.                                       *)
(*   Day-03-02-01-Task/task/Extracting_IP_Addresses_from_Logs.py           *)
(*       re.findall(r"(\d{1,3}\.){3}\d{1,3}", log_data)                    *)
(*                                                                         *)
(* A string is a sequence of characters.  The host alphabet has one name   *)
(* character "a" (it stands for any letter, digit or dot of a host or      *)
(* program name), the blank, the shell's command separator ";" and the     *)
(* NUL character.  The fixed parts of the command line ("ping", "-c",      *)
(* "1", ">", "/dev/null", "2>&1") are single characters of the model: the  *)
(* f-string puts a blank on both sides of the host, so they never fuse     *)
(* with a character of the host.                                           *)
(***************************************************************************)
EXTENDS Integers, Sequences, FiniteSets

\* Longest host string handed to check_server.
MaxLen == 2

\* Longest digit-and-dot fragment of a log line.
MaxFrag == 7

Callers == {1, 2}

Alphabet == {"a", " ", ";", "NUL"}

Strings(S, n) == UNION {[1..k -> S] : k \in 0..n}

\* Every host string of the model, and the syntactically valid host names.
AllHosts == Strings(Alphabet, MaxLen)
Hosts == Strings({"a"}, MaxLen) \ {<<>>}
ValidHost(h) == h \in Hosts

\* The hosts of the parallel callers: the valid names, the empty string, a
\* host that is only a separator, one that names a second command, and NUL.
ParHosts == Hosts \cup {<<>>, <<";">>, <<";", "a">>, <<"NUL">>}

\* What the network does with an echo request to a name.
NetStates == {"reply", "silent", "nxdomain"}
\* Whether this machine can run the probe: ping installed and allowed to
\* open its socket, ping installed but not permitted, ping not installed.
LocalStates == {"ok", "noperm", "noping"}

VARIABLES
    pc,          \* per caller: where its call of check_server stands
    host,        \* per caller: the argument of the call
    queue,       \* per caller: the commands the shell has still to run
    response,    \* per caller: the local variable response (-1: not yet set)
    line,        \* per caller: the text the call handed to print
    probes,      \* per caller: the targets ping set out to probe
    ran,         \* per caller: the commands other than ping the shell ran
    obs,         \* per caller: what became of the call's ping
    stdout,      \* the process's standard output: the writes, in order
    net,         \* the network: what each name does with an echo request
    local,       \* this machine's ability to run the probe
    envChanged,  \* whether net or local changed since the first call began
    log_data,    \* the log text of the extraction script
    ip_addresses,\* the list re.findall returned
    rpc          \* where the extraction script stands

checkVars == <<pc, host, queue, response, line, probes, ran, obs, stdout,
               net, local, envChanged>>
reVars == <<log_data, ip_addresses, rpc>>
vars == <<pc, host, queue, response, line, probes, ran, obs, stdout,
          net, local, envChanged, log_data, ip_addresses, rpc>>

----------------------------------------------------------------------------
(* The command line and the shell's reading of it.                          *)

\* f"ping -c 1 {host} > /dev/null 2>&1" without its redirection.
CommandNoRedirect(h) ==
    <<"ping", " ", "-c", " ", "1", " ">> \o h

\* f"ping -c 1 {host} > /dev/null 2>&1"
Command(h) ==
    <<"ping", " ", "-c", " ", "1", " ">> \o h
        \o <<" ", ">", " ", "/dev/null", " ", "2>&1">>

\* s cut at every sep: the pieces between the separators, empty ones kept.
RECURSIVE Split(_, _)
Split(s, sep) ==
    IF s = <<>> THEN << <<>> >>
    ELSE LET rest == Split(Tail(s), sep)
         IN  IF Head(s) = sep
             THEN << <<>> >> \o rest
             ELSE << <<Head(s)>> \o Head(rest) >> \o Tail(rest)

\* The blank-separated words of one command.
Words(seg) == SelectSeq(Split(seg, " "), LAMBDA w : w # <<>>)

RedirWords == { <<">">>, <<"/dev/null">>, <<"2>&1">> }

\* Whether the command's standard output goes to /dev/null.
Redirected(seg) == \E i \in 1..Len(Words(seg)) : Words(seg)[i] = <<">">>

\* The command's argument vector: its words without the redirections.
Argv(seg) == SelectSeq(Words(seg), LAMBDA w : w \notin RedirWords)

\* The shell's list of commands: the line cut at every ";".
Segments(cmd) == Split(cmd, ";")

\* sh accepts the list when every command before the last one has a word
\* (";;" and "; ;" are syntax errors; a last command that is only a
\* redirection is a command).
SyntaxOK(cmd) ==
    \A i \in 1..(Len(Segments(cmd)) - 1) : Argv(Segments(cmd)[i]) # <<>>

\* The destinations ping is given: its arguments after "-c 1".
PingDests(argv) ==
    IF Len(argv) >= 3 /\ argv[2] = <<"-c">>
    THEN SubSeq(argv, 4, Len(argv))
    ELSE Tail(argv)

\* os.system returns the wait status: the exit code in the high byte.
WaitStatus(code) == code * 256

\* The text check_server hands to print, hard-wired to one host.
StatusLineFixedHost(h, r) ==
    <<"a">> \o << IF r = 0 THEN " is UP" ELSE " is DOWN" >>

\* The text check_server hands to print: f"{host} is UP" / f"{host} is DOWN".
StatusLine(h, r) ==
    h \o << IF r = 0 THEN " is UP" ELSE " is DOWN" >>

UpLine(h) == h \o <<" is UP">>
DownLine(h) == h \o <<" is DOWN">>

----------------------------------------------------------------------------
(* check_server, one step at a time.                                        *)

InitCallers ==
    /\ pc = [c \in Callers |-> "idle"]
    /\ host = [c \in Callers |-> <<>>]
    /\ queue = [c \in Callers |-> <<>>]
    /\ response = [c \in Callers |-> -1]
    /\ line = [c \in Callers |-> <<>>]
    /\ probes = [c \in Callers |-> <<>>]
    /\ ran = [c \in Callers |-> <<>>]
    /\ obs = [c \in Callers |-> "none"]
    /\ stdout = <<>>
    /\ envChanged = FALSE

\* The extraction script has not run.
InitRe ==
    /\ log_data = <<>>
    /\ ip_addresses = <<>>
    /\ rpc = "start"

\* check_server(h) is called.
Call(c, h) ==
    /\ pc[c] = "idle"
    /\ pc' = [pc EXCEPT ![c] = "called"]
    /\ host' = [host EXCEPT ![c] = h]
    /\ UNCHANGED <<queue, response, line, probes, ran, obs, stdout, net,
                   local, envChanged>>
    /\ UNCHANGED reVars

\* os.system(cmd): a string with an embedded NUL raises ValueError; a
\* list sh cannot parse makes sh exit with status 2 before it runs
\* anything; otherwise sh starts on the list.
System(c) ==
    /\ pc[c] = "called"
    /\ LET cmd == Command(host[c])
       IN  IF \E i \in 1..Len(cmd) : cmd[i] = "NUL"
           THEN /\ pc' = [pc EXCEPT ![c] = "raised"]
                /\ UNCHANGED <<queue, response>>
           ELSE IF ~SyntaxOK(cmd)
           THEN /\ pc' = [pc EXCEPT ![c] = "returned"]
                /\ response' = [response EXCEPT ![c] = WaitStatus(2)]
                /\ UNCHANGED queue
           ELSE /\ pc' = [pc EXCEPT ![c] = "shell"]
                /\ queue' = [queue EXCEPT ![c] = Segments(cmd)]
                /\ UNCHANGED response
    /\ UNCHANGED <<host, line, probes, ran, obs, stdout, net, local,
                   envChanged>>
    /\ UNCHANGED reVars

\* The command at the head of the list has exited with status st: sh goes
\* on to the next one, or exits with the status of the last one, which
\* os.system returns.
Finish(c, st) ==
    /\ queue' = [queue EXCEPT ![c] = Tail(@)]
    /\ IF Len(queue[c]) = 1
       THEN /\ pc' = [pc EXCEPT ![c] = "returned"]
            /\ response' = [response EXCEPT ![c] = WaitStatus(st)]
       ELSE /\ pc' = [pc EXCEPT ![c] = "shell"]
            /\ UNCHANGED response

\* sh runs a command that is only a redirection: it opens the file and
\* the command's status is 0.
ShellEmpty(c) ==
    /\ pc[c] = "shell"
    /\ Argv(Head(queue[c])) = <<>>
    /\ Finish(c, 0)
    /\ UNCHANGED <<host, line, probes, ran, obs, stdout, net, local,
                   envChanged>>
    /\ UNCHANGED reVars

\* sh runs ping.  Not installed: sh's status 127.  No destination, or no
\* permission to open the socket: ping exits with status 2 and no probe
\* is dispatched.  Otherwise ping sets out to probe its last destination:
\* a name that does not resolve ends the probe at once with status 2; for
\* a name that resolves ping sends its one echo request and waits.
ShellPing(c) ==
    /\ pc[c] = "shell"
    /\ Argv(Head(queue[c])) # <<>>
    /\ Argv(Head(queue[c]))[1] = <<"ping">>
    /\ LET seg == Head(queue[c])
           dests == PingDests(Argv(seg))
           fail == IF local = "noping" THEN "noping"
                   ELSE IF dests = <<>> THEN "usage"
                   ELSE IF local = "noperm" THEN "noperm"
                   ELSE "none"
       IN  IF fail # "none"
           THEN /\ obs' = [obs EXCEPT ![c] = fail]
                /\ Finish(c, IF fail = "noping" THEN 127 ELSE 2)
                /\ UNCHANGED <<probes, stdout>>
           ELSE /\ probes' = [probes EXCEPT
                                ![c] = Append(@, dests[Len(dests)])]
                /\ IF \E i \in 1..Len(dests) : net[dests[i]] = "nxdomain"
                   THEN /\ obs' = [obs EXCEPT ![c] = "nxdomain"]
                        /\ Finish(c, 2)
                        /\ UNCHANGED stdout
                   ELSE /\ stdout' = IF Redirected(seg) THEN stdout
                                     ELSE Append(stdout,
                                            <<"PING ">> \o dests[Len(dests)])
                        /\ pc' = [pc EXCEPT ![c] = "waiting"]
                        /\ UNCHANGED <<queue, response, obs>>
    /\ UNCHANGED <<host, line, ran, net, local, envChanged>>
    /\ UNCHANGED reVars

\* sh runs the command a word of the host string names.  What the program
\* of that name does is the machine's: there is none (status 127), it exits
\* with 0, it exits with 1, or it does not exit.
ShellOther(c) ==
    /\ pc[c] = "shell"
    /\ Argv(Head(queue[c])) # <<>>
    /\ Argv(Head(queue[c]))[1] # <<"ping">>
    /\ ran' = [ran EXCEPT ![c] = Append(@, Argv(Head(queue[c]))[1])]
    /\ \/ \E st \in {0, 1, 127} : Finish(c, st)
       \/ /\ pc' = [pc EXCEPT ![c] = "hung"]
          /\ UNCHANGED <<queue, response>>
    /\ UNCHANGED <<host, line, probes, obs, stdout, net, local, envChanged>>
    /\ UNCHANGED reVars

\* The echo reply arrives: ping -c 1 exits with status 0.
PingReply(c) ==
    /\ pc[c] = "waiting"
    /\ net[probes[c][Len(probes[c])]] = "reply"
    /\ obs' = [obs EXCEPT ![c] = "reply"]
    /\ Finish(c, 0)
    /\ UNCHANGED <<host, line, probes, ran, stdout, net, local, envChanged>>
    /\ UNCHANGED reVars

\* No reply within ping's wait for its one request: it exits with 1.
PingTimeout(c) ==
    /\ pc[c] = "waiting"
    /\ net[probes[c][Len(probes[c])]] # "reply"
    /\ obs' = [obs EXCEPT ![c] = "timeout"]
    /\ Finish(c, 1)
    /\ UNCHANGED <<host, line, probes, ran, stdout, net, local, envChanged>>
    /\ UNCHANGED reVars

\* The branch on response, reading one module-level response.
PrintStatusShared(c) ==
    /\ pc[c] = "returned"
    /\ line' = [line EXCEPT ![c] = StatusLine(host[c], response[1])]
    /\ stdout' = Append(stdout, StatusLine(host[c], response[1]))
    /\ pc' = [pc EXCEPT ![c] = "newline"]
    /\ UNCHANGED <<host, queue, response, probes, ran, obs, net, local,
                   envChanged>>
    /\ UNCHANGED reVars

\* if response == 0: print(f"{host} is UP") else: print(f"{host} is DOWN").
\* print writes the text, then the line end.
PrintStatus(c) ==
    /\ pc[c] = "returned"
    /\ line' = [line EXCEPT ![c] = StatusLine(host[c], response[c])]
    /\ stdout' = Append(stdout, StatusLine(host[c], response[c]))
    /\ pc' = [pc EXCEPT ![c] = "newline"]
    /\ UNCHANGED <<host, queue, response, probes, ran, obs, net, local,
                   envChanged>>
    /\ UNCHANGED reVars

\* print's second write, the "\n"; check_server returns.
PrintEnd(c) ==
    /\ pc[c] = "newline"
    /\ stdout' = Append(stdout, <<"\n">>)
    /\ pc' = [pc EXCEPT ![c] = "done"]
    /\ UNCHANGED <<host, queue, response, line, probes, ran, obs, net,
                   local, envChanged>>
    /\ UNCHANGED reVars

Started == \E c \in Callers : pc[c] # "idle"

\* The network changes what it does with requests to one name.
NetChange ==
    /\ \E h \in Hosts, s \in NetStates :
          /\ net[h] # s
          /\ net' = [net EXCEPT ![h] = s]
    /\ envChanged' = (envChanged \/ Started)
    /\ UNCHANGED <<pc, host, queue, response, line, probes, ran, obs,
                   stdout, local>>
    /\ UNCHANGED reVars

\* The machine's ability to run the probe changes.
LocalChange ==
    /\ \E s \in LocalStates :
          /\ local # s
          /\ local' = s
    /\ envChanged' = (envChanged \/ Started)
    /\ UNCHANGED <<pc, host, queue, response, line, probes, ran, obs,
                   stdout, net>>
    /\ UNCHANGED reVars

\* One step of a call in progress.
CallerStep(c) ==
    \/ System(c)
    \/ ShellEmpty(c)
    \/ ShellPing(c)
    \/ ShellOther(c)
    \/ PingReply(c)
    \/ PingTimeout(c)
    \/ PrintStatus(c)
    \/ PrintEnd(c)

\* Any network, any local ability to probe; nobody has called yet.
Init ==
    /\ InitCallers
    /\ net \in [Hosts -> NetStates]
    /\ local \in LocalStates
    /\ InitRe

\* One caller, any host string.
Next ==
    \/ \E h \in AllHosts : Call(1, h)
    \/ CallerStep(1)
    \/ NetChange
    \/ LocalChange

Spec == Init /\ [][Next]_vars

\* Two callers in parallel.
NextPar ==
    \/ \E c \in Callers : \E h \in ParHosts : Call(c, h)
    \/ \E c \in Callers : CallerStep(c)
    \/ NetChange
    \/ LocalChange

SpecPar == Init /\ [][NextPar]_vars

----------------------------------------------------------------------------
(* The extraction script: re.findall(r"(\d{1,3}\.){3}\d{1,3}", log_data).   *)

\* \d{1,3}: at least RepMin and at most RepMax digits.
RepMin == 1
RepMax == 3
\* (...){3}: the group is repeated GroupReps times.
GroupReps == 3

Digits == {"1"}
IsDigit(ch) == ch \in Digits

\* Whether text[p .. p+k-1] lies in the text and is all digits.
DigitsAt(text, p, k) ==
    /\ p + k - 1 <= Len(text)
    /\ \A i \in p..(p + k - 1) : IsDigit(text[i])

NoMatch == [ok |-> FALSE, start |-> 0, end |-> 0, group |-> <<>>]

\* The backtracking matcher.  MatchFrom(text, start, p, n, cap) matches the
\* rest of the pattern at p: n more repetitions of the group (\d{1,3}\.)
\* and then \d{1,3}; cap is the group's latest capture.  A \d{1,3} is
\* greedy: TryGroup and TryLast try RepMax digits first and fewer digits
\* when the rest of the pattern then fails.  end is the position after the
\* match.
RECURSIVE MatchFrom(_, _, _, _, _), TryGroup(_, _, _, _, _), TryLast(_, _, _, _, _)
TryLast(text, start, p, cap, k) ==
    IF k < RepMin THEN NoMatch
    ELSE IF DigitsAt(text, p, k)
         THEN [ok |-> TRUE, start |-> start, end |-> p + k, group |-> cap]
         ELSE TryLast(text, start, p, cap, k - 1)

TryGroup(text, start, p, n, k) ==
    IF k < RepMin THEN NoMatch
    ELSE LET fits == /\ DigitsAt(text, p, k)
                     /\ p + k <= Len(text)
                     /\ text[p + k] = "."
             r == IF fits
                  THEN MatchFrom(text, start, p + k + 1, n - 1,
                                 SubSeq(text, p, p + k))
                  ELSE NoMatch
         IN  IF r.ok THEN r ELSE TryGroup(text, start, p, n, k - 1)

MatchFrom(text, start, p, n, cap) ==
    IF n = 0 THEN TryLast(text, start, p, cap, RepMax)
    ELSE TryGroup(text, start, p, n, RepMax)

\* The pattern matched at position p of the text.
MatchAt(text, p) == MatchFrom(text, p, p, GroupReps, <<>>)

\* What findall gives for a match of a pattern with one group: the group,
\* that is the text of the group's last repetition.
MatchItem(text, m) == m.group

\* re.findall: the matches from left to right, the scan going on after
\* the end of each match.
RECURSIVE Scan(_, _)
Scan(text, p) ==
    IF p > Len(text) THEN <<>>
    ELSE LET m == MatchAt(text, p)
         IN  IF m.ok
             THEN <<MatchItem(text, m)>> \o Scan(text, m.end)
             ELSE Scan(text, p + 1)

FindAll(text) == Scan(text, 1)

\* repr of a list of strings: ['...', '...'].
RECURSIVE ReprItems(_)
ReprItems(l) ==
    IF l = <<>> THEN <<>>
    ELSE <<"'">> \o Head(l) \o <<"'">>
         \o (IF Len(l) > 1 THEN <<", ">> ELSE <<>>) \o ReprItems(Tail(l))

Repr(l) == <<"[">> \o ReprItems(l) \o <<"]">>

\* The log texts: two lines, as in the script, each a run of digits and
\* dots of at most MaxFrag characters.
Frags == Strings({"1", "."}, MaxFrag)
Logs == { <<"\n">> \o f1 \o <<"\n">> \o f2 \o <<"\n">> : f1 \in Frags, f2 \in Frags }

\* ip_addresses = re.findall(ip_pattern, log_data)
Extract ==
    /\ rpc = "start"
    /\ ip_addresses' = FindAll(log_data)
    /\ rpc' = "matched"
    /\ UNCHANGED log_data
    /\ UNCHANGED checkVars

\* print("Extracted IPs:", ip_addresses)
PrintExtracted ==
    /\ rpc = "matched"
    /\ stdout' = stdout \o << <<"Extracted IPs:">>, <<" ">>,
                              Repr(ip_addresses), <<"\n">> >>
    /\ rpc' = "printed"
    /\ UNCHANGED <<log_data, ip_addresses>>
    /\ UNCHANGED <<pc, host, queue, response, line, probes, ran, obs, net,
                   local, envChanged>>

InitExtract ==
    /\ InitCallers
    /\ net = [h \in Hosts |-> "reply"]
    /\ local = "ok"
    /\ log_data \in Logs
    /\ ip_addresses = <<>>
    /\ rpc = "start"

NextExtract ==
    \/ Extract
    \/ PrintExtracted

SpecExtract == InitExtract /\ [][NextExtract]_vars

----------------------------------------------------------------------------
(* The properties.                                                          *)

Done(c) == pc[c] = "done"

\* The characters written to standard output, and its lines: the pieces
\* between the line ends (the last piece is what follows the last "\n").
RECURSIVE Flatten(_)
Flatten(ws) == IF ws = <<>> THEN <<>> ELSE Head(ws) \o Flatten(Tail(ws))
OutputLines == Split(Flatten(stdout), "\n")

\* C1: for every non-empty host, a finished call reports UP exactly when
\* its probe got a response, and DOWN exactly when it got none (no reply
\* before the timeout, or the probe rejected).
C1_ClassifiesProbeOutcome ==
    \A c \in Callers :
        Done(c) /\ host[c] # <<>> =>
            /\ line[c] = UpLine(host[c]) <=> obs[c] = "reply"
            /\ line[c] = DownLine(host[c]) <=> obs[c] # "reply"

\* C2: a call with an empty or malformed host never ends in the UP or the
\* DOWN outcome.
C2_MalformedHostIsError ==
    \A c \in Callers :
        Done(c) /\ ~ValidHost(host[c]) =>
            line[c] \notin {UpLine(host[c]), DownLine(host[c])}

\* C3: a probe that could not be dispatched (no permission to open the
\* socket, no ping command) is never reported as "<host> is DOWN".
C3_DispatchFailureIsNotDown ==
    \A c \in Callers :
        Done(c) /\ ValidHost(host[c]) /\ obs[c] \in {"noperm", "noping"} =>
            line[c] # DownLine(host[c])

\* C4: a call with a syntactically valid host neither raises nor hangs, and
\* when it has returned, standard output holds exactly one complete line,
\* "<host> is UP" or "<host> is DOWN" with the host of the call, and
\* nothing else.
C4_OneCompleteLine ==
    /\ ValidHost(host[1]) => pc[1] \notin {"raised", "hung"}
    /\ Done(1) /\ ValidHost(host[1]) =>
          /\ OutputLines \in { <<UpLine(host[1]), <<>> >>,
                               <<DownLine(host[1]), <<>> >> }
          /\ line[1] = OutputLines[1]

C4_Witness ==
    /\ Done(1)
    /\ ValidHost(host[1])
    /\ OutputLines = <<UpLine(host[1]), <<>> >>

\* C5: a finished call on a machine able to probe has dispatched exactly one
\* probe, addressed to the host it was given, and the host string has
\* made the shell run no other command.
C5_ExactlyOneProbe ==
    \A c \in Callers :
        Done(c) /\ obs[c] \notin {"noperm", "noping"} =>
            /\ probes[c] = <<host[c]>>
            /\ ran[c] = <<>>

\* C6: a call never hangs: it never reaches the state in which os.system
\* waits for a command that does not exit, where the call has no next step.
C6_NeverHangs ==
    \A c \in Callers : pc[c] # "hung"

\* C7: no call raises an exception, and a finished call with a malformed
\* host has reported an error, not UP or DOWN.
C7_ReturnsNormally ==
    \A c \in Callers :
        /\ pc[c] # "raised"
        /\ Done(c) /\ ~ValidHost(host[c]) =>
              /\ line[c] # UpLine(host[c])
              /\ line[c] # DownLine(host[c])

\* The whole text of a match.
MatchItemWhole(text, m) == SubSeq(text, m.start, m.end - 1)

\* The whole matches of the pattern in the text, left to right,
\* non-overlapping.
RECURSIVE WholeMatches(_, _)
WholeMatches(text, p) ==
    IF p > Len(text) THEN <<>>
    ELSE LET m == MatchAt(text, p)
         IN  IF m.ok
             THEN <<MatchItemWhole(text, m)>> \o WholeMatches(text, m.end)
             ELSE WholeMatches(text, p + 1)

\* C8: the list the extraction script gets holds the full matching
\* substrings of the log text, one per non-overlapping match, in order.
C8_FullMatchingSubstrings ==
    rpc # "start" => ip_addresses = WholeMatches(log_data, 1)

\* C9: two finished calls with the same valid host report the same outcome
\* when the environment did not change while they ran, and whenever their
\* probes met the same response.
C9_SameInputSameOutcome ==
    \A c1 \in Callers, c2 \in Callers :
        /\ Done(c1) /\ Done(c2)
        /\ host[c1] = host[c2]
        /\ ValidHost(host[c1])
        => /\ ~envChanged => line[c1] = line[c2]
           /\ obs[c1] = obs[c2] => line[c1] = line[c2]

C9_Witness ==
    /\ Done(1) /\ Done(2)
    /\ host[1] = host[2]
    /\ ValidHost(host[1])
    /\ ~envChanged
    /\ line[1] = UpLine(host[1])
    /\ line[2] = UpLine(host[2])

\* C10: under every interleaving of two calls, the text a call prints
\* names the host that call was given, says UP exactly when that call's
\* own command returned 0, which for a valid host is exactly when that
\* call's own probe was answered, and is on standard output.
C10_CallsIndependent ==
    \A c \in Callers :
        pc[c] \in {"newline", "done"} =>
            /\ line[c] \in {UpLine(host[c]), DownLine(host[c])}
            /\ line[c] = UpLine(host[c]) <=> response[c] = 0
            /\ ValidHost(host[c]) =>
                  (line[c] = UpLine(host[c]) <=> obs[c] = "reply")
            /\ \E i \in 1..Len(stdout) : stdout[i] = line[c]

\* Two calls for different hosts whose texts were both written before
\* either line end, one UP and one DOWN.
C10_Witness ==
    /\ Done(1) /\ Done(2)
    /\ ValidHost(host[1]) /\ ValidHost(host[2])
    /\ host[1] # host[2]
    /\ Len(stdout) = 4
    /\ stdout[1] = UpLine(host[1])
    /\ stdout[2] = DownLine(host[2])

====
